---- MODULE Spec2Model ----
(***************************************************************************)
(* Points ledger and progression engine of inksa-gamification.             *)
(*                                                                         *)
(* The store is the relational database the handlers share.  Every         *)
(* handler instance is a process; one step of a process is one statement   *)
(* (or one transaction) it awaits on the store, so that concurrent         *)
(* handlers interleave exactly where the code awaits.  Checks a handler    *)
(* makes on static tables (users, badges, challenges, levels) before its   *)
(* first statement on a mutable table are taken in the step that starts    *)
(* the request.                                                            *)
(***************************************************************************)
EXTENDS Integers, Sequences, FiniteSets, TLC

VARIABLES
  userPoints,      \* table user_points: user_id -> row (user_id is the key)
  pointsHistory,   \* table points_history: rows in insertion (id) order
  userBadges,      \* table user_badges: number of rows per <<user_id, badge_id>>
  progress,        \* table user_challenge_progress: <<user_id, challenge_id>> -> row
  levels,          \* table levels (never written at runtime)
  now,             \* the clock (CURRENT_TIMESTAMP / new Date())
  pc,              \* per process: the statement it is about to run
  req,             \* per process: the request it serves
  loc,             \* per process: the handler's local variables
  resp,            \* per process: the response of its last finished request
  calls,           \* requests started so far
  faults,          \* storage failures injected so far
  lvTotal,         \* argument of a direct calculateLevel call
  lvResult         \* level_number returned by a direct calculateLevel call

vars == <<userPoints, pointsHistory, userBadges, progress, levels, now,
          pc, req, loc, resp, calls, faults, lvTotal, lvResult>>

store == <<userPoints, pointsHistory, userBadges, progress>>

----------------------------------------------------------------------------
(* Bounds of the model *)

MaxCalls == 2
MaxFaults == 1
MaxNow == 1
MaxLevels == 3

Procs == {1, 2}

----------------------------------------------------------------------------
(* Static tables *)

Internal == 0
Users == {1, 2}
UserIds == {1, 2, 3}
Callers == {Internal, 1}

DefaultLevels ==
  { [level_number |-> 1, points_required |-> 0],
    [level_number |-> 2, points_required |-> 100],
    [level_number |-> 3, points_required |-> 300] }

BadgeIds == {1, 2}
Badges ==
  [ b \in BadgeIds |->
      IF b = 1 THEN [is_active |-> TRUE,  points_reward |-> 100]
               ELSE [is_active |-> FALSE, points_reward |-> 0] ]

NoBadge == 0
NoEnd == -1
ChallengeIds == {1, 2, 3}
Challenges ==
  [ c \in ChallengeIds |->
      CASE c = 1 -> [is_active |-> TRUE, points_reward |-> 200, badge_reward |-> 1,
                     start_date |-> 0, end_date |-> 0]
        [] c = 2 -> [is_active |-> TRUE, points_reward |-> 0, badge_reward |-> 2,
                     start_date |-> 1, end_date |-> NoEnd]
        [] OTHER -> [is_active |-> FALSE, points_reward |-> 100, badge_reward |-> NoBadge,
                     start_date |-> 0, end_date |-> NoEnd] ]

PointsIn == {0, 100, 200}

----------------------------------------------------------------------------
(* Pure helpers of utils/database.js *)

\* calculateLevel's fallback row when the query returns nothing
FallbackLevel == [level_number |-> 1, points_required |-> 0]

\* calculateLevel with WHERE points_required < $1: a total that is exactly a
\* threshold stays on the level below
calculateLevelStrict(table, total) ==
  LET el == {r \in table : r.points_required < total}
  IN IF el = {} THEN {FallbackLevel}
     ELSE {r \in el : \A q \in el : q.points_required <= r.points_required}

\* WHERE points_required <= $1 ORDER BY points_required DESC LIMIT 1
\* (the set of rows the query may return: rows tied on points_required are
\* returned in an order the store chooses)
calculateLevel(table, total) ==
  LET el == {r \in table : r.points_required <= total}
  IN IF el = {} THEN {FallbackLevel}
     ELSE {r \in el : \A q \in el : q.points_required <= r.points_required}

\* getNextLevel with WHERE level_number >= $1: the current level is its own
\* next level
getNextLevelInclusive(table, currentLevel) ==
  LET hi == {r \in table : r.level_number >= currentLevel}
  IN {r \in hi : \A q \in hi : r.level_number <= q.level_number}

\* WHERE level_number > $1 ORDER BY level_number ASC LIMIT 1 (empty set: null)
getNextLevel(table, currentLevel) ==
  LET hi == {r \in table : r.level_number > currentLevel}
  IN {r \in hi : \A q \in hi : r.level_number <= q.level_number}

PointsToNextLevel(table, lvl, total) ==
  LET nx == getNextLevel(table, lvl)
  IN IF nx = {} THEN 0 ELSE (CHOOSE r \in nx : TRUE).points_required - total

\* INSERT INTO user_points ... VALUES ($1, 0, 1, 100)
NewUserPointsRow == [total_points |-> 0, current_level |-> 1, points_to_next_level |-> 100]

\* a total written back from the handler's memory instead of added in the store
IncrementLost(row, points) == [row EXCEPT !.total_points = points]

\* SET total_points = total_points + $2
Increment(row, points) == [row EXCEPT !.total_points = @ + points]

----------------------------------------------------------------------------
(* Constraints of the schema *)

\* user_badges without its uniqueness constraint
NoUniqueUserBadge(u, b) == FALSE

\* user_badges UNIQUE(user_id, badge_id): an insert of a present pair is rejected
UniqueUserBadgeViolated(u, b) == userBadges[<<u, b>>] > 0

\* user_points PRIMARY KEY(user_id)
UserPointsKeyViolated(u) == u \in DOMAIN userPoints

----------------------------------------------------------------------------
(* Process-local state *)

LocInit ==
  [ site |-> "none", points |-> 0, ptype |-> "none",
    upTotal |-> 0, upLevel |-> 0,
    newTotal |-> -1, level |-> -1, p2n |-> -1,
    badgeEarned |-> FALSE, badgePts |-> 0,
    levelUp |-> FALSE, rows |-> {}, window |-> <<0, 0>>,
    ranking |-> <<>>, userPosition |-> 0 ]

RespInit ==
  [ status |-> 0, msg |-> "none", newTotal |-> -1, level |-> -1, p2n |-> -1,
    total |-> -1, levelUp |-> FALSE, badgeEarned |-> FALSE, pointsEarned |-> 0,
    ranking |-> <<>>, userPosition |-> 0, challengeProgress |-> {} ]

NoReq == [op |-> "none", caller |-> Internal, userId |-> 1, arg |-> 0, auto |-> FALSE]

\* requiredFields of points/add.js
requiredFields == {"userId", "points", "pointsType"}

\* a negative amount of points
NegativePoints == 0 - 100

\* the bodies of addPoints: complete ones with any amount, and bodies that
\* lack one required field (the field's value in the record is then unused)
AddRequests ==
  [op : {"addPoints"}, caller : Callers, userId : UserIds,
   arg : PointsIn \cup {NegativePoints}, auto : {FALSE}, missing : {{}}]
  \cup [op : {"addPoints"}, caller : Callers, userId : {1}, arg : {100}, auto : {FALSE},
        missing : {{f} : f \in requiredFields}]
GrantRequests ==
  [op : {"grantBadge"}, caller : Callers, userId : UserIds, arg : BadgeIds, auto : {FALSE}]
CompleteRequests ==
  [op : {"completeChallenge"}, caller : Callers, userId : UserIds, arg : ChallengeIds,
   auto : BOOLEAN]
GetRequests ==
  [op : {"getPoints"}, caller : Callers, userId : UserIds, arg : {0}, auto : {FALSE}]

CanStart(p) == pc[p] \in {"idle", "done"} /\ calls < MaxCalls

Begin(p, r) ==
  /\ req' = [req EXCEPT ![p] = r]
  /\ calls' = calls + 1

\* res.status(code).json(createResponse(...)): the request ends
Respond(p, r) ==
  /\ pc' = [pc EXCEPT ![p] = "done"]
  /\ resp' = [resp EXCEPT ![p] = r]
  /\ loc' = [loc EXCEPT ![p] = LocInit]

Reject(p, code, m) == Respond(p, [RespInit EXCEPT !.status = code, !.msg = m])

\* handleError maps every storage error to 500 'Erro interno do servidor'
InternalError == [RespInit EXCEPT !.status = 500, !.msg = "internal"]

Goto(p, label) == pc' = [pc EXCEPT ![p] = label]

\* a handler without its authorization check
EveryoneAuthorized(r) == FALSE

\* !auth.isInternal && auth.userId !== userId
Unauthorized(r) == r.caller # Internal /\ r.caller # r.userId

ApuLabels == {"apu_txn", "gup_select", "gup_insert", "apu_level"}

\* Each label stands for the awaited statements a process is at whose
\* rejection has one and the same outcome.
StatementLabels ==
  ApuLabels \cup {"get_level",
                  "gb_exists", "gb_insert", "gb_awarded", "gb_unlock", "gb_content",
                  "cc_progress", "cc_mark", "cc_badge_check", "cc_badge_insert",
                  "cc_badge_read", "cc_finish",
                  "gcp_rows", "gcp_history",
                  "rk_list", "rk_position", "rk_stats"}

\* the 200 of badges/award.js; levelUp is what checkUnlockedContent returned
GrantAnswer(p, levelUp) ==
  [RespInit EXCEPT !.status = 200, !.msg = "ok",
                   !.newTotal = loc[p].newTotal, !.level = loc[p].level,
                   !.p2n = loc[p].p2n, !.levelUp = levelUp,
                   !.badgeEarned = TRUE,
                   !.pointsEarned = Badges[req[p].arg].points_reward]

\* a handler without the catch around its badge reward
ThrowUncaught(p) == Respond(p, InternalError)

\* An exception raised by the statement the process is at. Inside the badge
\* reward of completeChallenge it is caught and dropped (complete.js catch
\* (badgeError)); inside checkUnlockedContent it is caught and the content
\* returned is the empty one, levelUp false (award.js); everywhere else it
\* reaches handleError.
Throw(p) ==
  IF \/ pc[p] \in {"cc_badge_check", "cc_badge_insert", "cc_badge_read"}
     \/ (pc[p] \in ApuLabels /\ loc[p].site = "chalBadge")
  THEN Goto(p, "cc_finish") /\ UNCHANGED <<resp, loc>>
  ELSE IF pc[p] \in {"gb_unlock", "gb_content"}
  THEN Respond(p, GrantAnswer(p, FALSE))
  ELSE Respond(p, InternalError)

\* a handler that deposits every reward, also one of no points
AnyPointsReward(x) == TRUE

\* if (badge.points_reward > 0), if (challenge.points_reward > 0)
HasPointsReward(x) == x.points_reward > 0

\* addPointsToUser(userId, points, pointsType, ...) is entered
CallAddPoints(p, site, points, ptype) ==
  /\ Goto(p, "apu_txn")
  /\ loc' = [loc EXCEPT ![p] = [@ EXCEPT !.site = site, !.points = points, !.ptype = ptype]]
  /\ UNCHANGED resp

static == <<levels, lvTotal, lvResult>>

----------------------------------------------------------------------------
(* utils/database.js: addPointsToUser and getUserPoints *)

\* transaction([INSERT INTO points_history, UPDATE user_points SET total_points = ...])
ApuTxn(p) ==
  /\ pc[p] = "apu_txn"
  /\ LET u == req[p].userId
         l == loc[p]
     IN /\ pointsHistory' = Append(pointsHistory,
                              [user_id |-> u, points_earned |-> l.points,
                               points_type |-> l.ptype, created_at |-> now])
        /\ userPoints' = IF u \in DOMAIN userPoints
                           THEN [userPoints EXCEPT ![u] = Increment(@, l.points)]
                           ELSE userPoints
  /\ Goto(p, "gup_select")
  /\ UNCHANGED <<userBadges, progress, static, now, req, loc, resp, calls, faults>>

\* a read that repairs the stored level from the total it finds
GupRefresh(p) ==
  LET u == req[p].userId
  IN /\ userPoints' =
          [v \in DOMAIN userPoints |->
             IF v = u
             THEN [userPoints[v] EXCEPT !.current_level =
                     (CHOOSE r \in calculateLevel(levels, userPoints[v].total_points) :
                        TRUE).level_number]
             ELSE userPoints[v]]
     /\ UNCHANGED <<pointsHistory, userBadges, progress>>

\* the SELECT of getUserPoints writes nothing
GupRead(p) == UNCHANGED store

\* getUserPoints: SELECT * FROM user_points WHERE user_id = $1
GupSelect(p) ==
  /\ pc[p] = "gup_select"
  /\ LET u == req[p].userId
     IN IF u \in DOMAIN userPoints
        THEN LET row == userPoints[u]
             IN /\ Goto(p, IF loc[p].site = "get" THEN "get_level" ELSE "apu_level")
                /\ loc' = [loc EXCEPT ![p] = [@ EXCEPT !.upTotal = row.total_points,
                                                       !.upLevel = row.current_level]]
                /\ UNCHANGED resp
        ELSE Goto(p, "gup_insert") /\ UNCHANGED <<loc, resp>>
  /\ GupRead(p) /\ UNCHANGED <<static, now, req, calls, faults>>

\* getUserPoints: INSERT INTO user_points ... VALUES ($1, 0, 1, 100) RETURNING *
GupInsert(p) ==
  /\ pc[p] = "gup_insert"
  /\ LET u == req[p].userId
         row == NewUserPointsRow
     IN IF UserPointsKeyViolated(u)
        THEN Throw(p) /\ UNCHANGED userPoints
        ELSE /\ userPoints' = (u :> row) @@ userPoints
             /\ Goto(p, IF loc[p].site = "get" THEN "get_level" ELSE "apu_level")
             /\ loc' = [loc EXCEPT ![p] = [@ EXCEPT !.upTotal = row.total_points,
                                                    !.upLevel = row.current_level]]
             /\ UNCHANGED resp
  /\ UNCHANGED <<pointsHistory, userBadges, progress, static, now, req, calls, faults>>

\* points/get.js and levels/get.js after getUserPoints has returned the row
\* it read or inserted: calculateLevel, getNextLevel, the queries of the
\* previous level and of the level statistics (levels/get.js), then the
\* answer, computed from the row getUserPoints returned
GetLevel(p) ==
  /\ pc[p] = "get_level"
  /\ LET total == loc[p].upTotal
     IN \E lv \in calculateLevel(levels, total) :
          Respond(p, [RespInit EXCEPT
                        !.status = 200, !.msg = "ok",
                        !.total = total,
                        !.level = lv.level_number,
                        !.p2n = PointsToNextLevel(levels, lv.level_number, total)])
  /\ UNCHANGED <<store, static, now, req, calls, faults>>

\* newTotal: userPoints.total_points + points, on the row read after the increment
NewTotal(readTotal, points) == readTotal + points

\* addPointsToUser returns to the handler that called it
ApuReturn(p, res) ==
  LET site == loc[p].site
      ch == Challenges[req[p].arg]
      withRes == [loc[p] EXCEPT !.newTotal = res.newTotal, !.level = res.level,
                                !.p2n = res.p2n]
  IN CASE site = "add" ->
            Respond(p, [RespInit EXCEPT !.status = 200, !.msg = "ok",
                                        !.newTotal = res.newTotal, !.level = res.level,
                                        !.p2n = res.p2n, !.pointsEarned = loc[p].points])
       [] site = "grant" ->
            /\ Goto(p, "gb_awarded")
            /\ loc' = [loc EXCEPT ![p] = withRes]
            /\ UNCHANGED resp
       [] site = "chal" ->
            /\ Goto(p, IF ch.badge_reward # NoBadge THEN "cc_badge_check" ELSE "cc_finish")
            /\ loc' = [loc EXCEPT ![p] = withRes]
            /\ UNCHANGED resp
       [] OTHER ->
            Goto(p, "cc_finish") /\ UNCHANGED <<loc, resp>>

\* a level update that also writes back the total the handler read
LevelUpdateWithTotal(row, level, p2n, read) ==
  [row EXCEPT !.total_points = read.upTotal,
              !.current_level = level,
              !.points_to_next_level = p2n]

\* if (currentLevel.level_number !== userPoints.current_level)
\*   UPDATE user_points SET current_level = $2, points_to_next_level = $3
\* else UPDATE user_points SET points_to_next_level = $2
LevelUpdate(row, level, p2n, read) ==
  IF level # read.upLevel
  THEN [row EXCEPT !.current_level = level, !.points_to_next_level = p2n]
  ELSE [row EXCEPT !.points_to_next_level = p2n]

\* calculateLevel, getNextLevel and the UPDATE of current_level /
\* points_to_next_level, then the return value
ApuLevel(p) ==
  /\ pc[p] = "apu_level"
  /\ LET u == req[p].userId
         l == loc[p]
     IN \E lv \in calculateLevel(levels, l.upTotal) :
          LET p2n == PointsToNextLevel(levels, lv.level_number, l.upTotal)
          IN /\ userPoints' =
                  [userPoints EXCEPT ![u] = LevelUpdate(@, lv.level_number, p2n, l)]
             /\ ApuReturn(p, [newTotal |-> NewTotal(l.upTotal, l.points),
                              level |-> lv.level_number, p2n |-> p2n])
  /\ UNCHANGED <<pointsHistory, userBadges, progress, static, now, req, calls, faults>>

----------------------------------------------------------------------------
(* points/add.js and points/get.js *)

\* validateRequiredParams throws when a required field is absent
MissingParams(body, fields) == body.missing \cap fields # {}

\* a handler that takes any amount
PointsNeverInvalid(points) == FALSE

\* if (points <= 0)
PointsInvalid(points) == points <= 0

AddPoints(p) ==
  /\ CanStart(p)
  /\ \E r \in AddRequests :
       /\ Begin(p, r)
       /\ IF MissingParams(r, requiredFields) THEN Reject(p, 400, "missing_params")
          ELSE IF PointsInvalid(r.arg) THEN Reject(p, 400, "invalid_points")
          ELSE IF r.userId \notin Users THEN Reject(p, 404, "user_not_found")
          ELSE IF Unauthorized(r) THEN Reject(p, 403, "forbidden")
          ELSE /\ Goto(p, "apu_txn")
               /\ loc' = [loc EXCEPT ![p] = [LocInit EXCEPT !.site = "add", !.points = r.arg,
                                                            !.ptype = "order"]]
               /\ UNCHANGED resp
  /\ UNCHANGED <<store, static, now, faults>>

GetPoints(p) ==
  /\ CanStart(p)
  /\ \E r \in GetRequests :
       /\ Begin(p, r)
       /\ IF r.userId \notin Users THEN Reject(p, 404, "user_not_found")
          ELSE IF Unauthorized(r) THEN Reject(p, 403, "forbidden")
          ELSE /\ Goto(p, "gup_select")
               /\ loc' = [loc EXCEPT ![p] = [LocInit EXCEPT !.site = "get"]]
               /\ UNCHANGED resp
  /\ UNCHANGED <<store, static, now, faults>>

----------------------------------------------------------------------------
(* levels/get.js *)

LevelGetRequests ==
  [op : {"getUserLevel"}, caller : Callers, userId : UserIds, arg : {0}, auto : {FALSE}]

\* getUserById, the authorization check, then getUserPoints; the level, the
\* next level and the statistics that follow are computed from SELECTs
GetUserLevel(p) ==
  /\ CanStart(p)
  /\ \E r \in LevelGetRequests :
       /\ Begin(p, r)
       /\ IF r.userId \notin Users THEN Reject(p, 404, "user_not_found")
          ELSE IF Unauthorized(r) THEN Reject(p, 403, "forbidden")
          ELSE /\ Goto(p, "gup_select")
               /\ loc' = [loc EXCEPT ![p] = [LocInit EXCEPT !.site = "get"]]
               /\ UNCHANGED resp
  /\ UNCHANGED <<store, static, now, faults>>

----------------------------------------------------------------------------
(* badges/award.js *)

\* checkUnlockedContent: a level with points_required <= total_points and
\* level_number > current_level exists
LevelUp(u) ==
  /\ u \in DOMAIN userPoints
  /\ \E r \in levels : /\ r.points_required <= userPoints[u].total_points
                       /\ r.level_number > userPoints[u].current_level

GrantBadge(p) ==
  /\ CanStart(p)
  /\ \E r \in GrantRequests :
       /\ Begin(p, r)
       /\ IF r.userId \notin Users THEN Reject(p, 404, "user_not_found")
          ELSE IF ~Badges[r.arg].is_active THEN Reject(p, 404, "badge_not_found")
          ELSE /\ Goto(p, "gb_exists")
               /\ loc' = [loc EXCEPT ![p] = LocInit]
               /\ UNCHANGED resp
  /\ UNCHANGED <<store, static, now, faults>>

\* SELECT ... FROM user_badges WHERE user_id = $1 AND badge_id = $2, then the
\* caller check
GbExists(p) ==
  /\ pc[p] = "gb_exists"
  /\ LET r == req[p]
     IN IF userBadges[<<r.userId, r.arg>>] > 0 THEN Reject(p, 400, "already_has_badge")
        ELSE IF r.caller # Internal THEN Reject(p, 403, "forbidden")
        ELSE Goto(p, "gb_insert") /\ UNCHANGED <<loc, resp>>
  /\ UNCHANGED <<store, static, now, req, calls, faults>>

\* transaction([INSERT INTO user_badges]), then addPointsToUser if the badge
\* has a points reward
GbInsert(p) ==
  /\ pc[p] = "gb_insert"
  /\ LET u == req[p].userId
         b == req[p].arg
     IN IF UniqueUserBadgeViolated(u, b)
        THEN Throw(p) /\ UNCHANGED userBadges
        ELSE /\ userBadges' = [userBadges EXCEPT ![<<u, b>>] = @ + 1]
             /\ IF HasPointsReward(Badges[b])
                THEN CallAddPoints(p, "grant", Badges[b].points_reward, "badge")
                ELSE Goto(p, "gb_awarded") /\ UNCHANGED <<loc, resp>>
  /\ UNCHANGED <<userPoints, pointsHistory, progress, static, now, req, calls, faults>>

\* SELECT ... FROM user_badges ub JOIN badges b: the read of the awarded badge
GbAwarded(p) ==
  /\ pc[p] = "gb_awarded"
  /\ Goto(p, "gb_unlock")
  /\ UNCHANGED <<store, static, now, req, loc, resp, calls, faults>>

\* checkUnlockedContent: SELECT total_points, current_level FROM user_points
\* and the query of the levels above current_level, on the row read
GbUnlock(p) ==
  /\ pc[p] = "gb_unlock"
  /\ Goto(p, "gb_content")
  /\ loc' = [loc EXCEPT ![p] = [@ EXCEPT !.levelUp = LevelUp(req[p].userId)]]
  /\ UNCHANGED <<store, static, now, req, resp, calls, faults>>

\* checkUnlockedContent: the queries of the new challenges and of the badge,
\* then the response
GbContent(p) ==
  /\ pc[p] = "gb_content"
  /\ Respond(p, GrantAnswer(p, loc[p].levelUp))
  /\ UNCHANGED <<store, static, now, req, calls, faults>>

----------------------------------------------------------------------------
(* challenges/complete.js *)

CompleteChallenge(p) ==
  /\ CanStart(p)
  /\ \E r \in CompleteRequests :
       LET ch == Challenges[r.arg]
       IN /\ Begin(p, r)
          /\ IF r.userId \notin Users THEN Reject(p, 404, "user_not_found")
             ELSE IF Unauthorized(r) THEN Reject(p, 403, "forbidden")
             ELSE IF ~ch.is_active THEN Reject(p, 404, "challenge_not_found")
             ELSE IF now < ch.start_date THEN Reject(p, 400, "not_started")
             ELSE IF ch.end_date # NoEnd /\ now > ch.end_date THEN Reject(p, 400, "expired")
             ELSE /\ Goto(p, "cc_progress")
                  /\ loc' = [loc EXCEPT ![p] = LocInit]
                  /\ UNCHANGED resp
  /\ UNCHANGED <<store, static, now, faults>>

\* a handler that never finds the row completed
NeverCompleted(row) == FALSE

\* if (userProgress.completed)
AlreadyCompleted(row) == row.completed

\* a handler that lets every progress through
TargetIgnored(row, autoComplete) == FALSE

\* a handler that checks the target whatever the flag says
TargetAlwaysChecked(row, autoComplete) == row.progress < row.target

\* if (!autoComplete && userProgress.progress < userProgress.target)
TargetNotMet(row, autoComplete) == ~autoComplete /\ row.progress < row.target

\* SELECT ... FROM user_challenge_progress, then the checks on the row read
CcProgress(p) ==
  /\ pc[p] = "cc_progress"
  /\ LET k == <<req[p].userId, req[p].arg>>
     IN IF k \notin DOMAIN progress THEN Reject(p, 404, "not_participating")
        ELSE IF AlreadyCompleted(progress[k]) THEN Reject(p, 400, "already_completed")
        ELSE IF TargetNotMet(progress[k], req[p].auto)
             THEN Reject(p, 400, "target_not_met")
        ELSE Goto(p, "cc_mark") /\ UNCHANGED <<loc, resp>>
  /\ UNCHANGED <<store, static, now, req, calls, faults>>

\* where the handler goes once the challenge's points are dealt with
AfterPoints(ch) == IF ch.badge_reward # NoBadge THEN "cc_badge_check" ELSE "cc_finish"

\* an UPDATE that flips the flag instead of setting it
MarkToggled(row, t) == [row EXCEPT !.completed = ~@, !.completed_at = t]

\* SET completed = true, completed_at = CURRENT_TIMESTAMP
MarkCompleted(row, t) == [row EXCEPT !.completed = TRUE, !.completed_at = t]

\* transaction([UPDATE user_challenge_progress SET completed = true, ...]),
\* then addPointsToUser if the challenge has a points reward
CcMark(p) ==
  /\ pc[p] = "cc_mark"
  /\ LET k == <<req[p].userId, req[p].arg>>
         ch == Challenges[req[p].arg]
     IN /\ progress' = [progress EXCEPT ![k] = MarkCompleted(@, now)]
        /\ IF HasPointsReward(ch)
           THEN CallAddPoints(p, "chal", ch.points_reward, "challenge")
           ELSE Goto(p, AfterPoints(ch)) /\ UNCHANGED <<loc, resp>>
  /\ UNCHANGED <<userPoints, pointsHistory, userBadges, static, now, req, calls, faults>>

\* SELECT id FROM user_badges WHERE user_id = $1 AND badge_id = $2
CcBadgeCheck(p) ==
  /\ pc[p] = "cc_badge_check"
  /\ LET k == <<req[p].userId, Challenges[req[p].arg].badge_reward>>
     IN Goto(p, IF userBadges[k] = 0 THEN "cc_badge_insert" ELSE "cc_finish")
  /\ UNCHANGED <<store, static, now, req, loc, resp, calls, faults>>

\* INSERT INTO user_badges (user_id, badge_id, earned_at)
CcBadgeInsert(p) ==
  /\ pc[p] = "cc_badge_insert"
  /\ LET u == req[p].userId
         b == Challenges[req[p].arg].badge_reward
     IN IF UniqueUserBadgeViolated(u, b)
        THEN Throw(p) /\ UNCHANGED userBadges
        ELSE /\ userBadges' = [userBadges EXCEPT ![<<u, b>>] = @ + 1]
             /\ Goto(p, "cc_badge_read")
             /\ UNCHANGED <<loc, resp>>
  /\ UNCHANGED <<userPoints, pointsHistory, progress, static, now, req, calls, faults>>

\* SELECT ... FROM badges WHERE id = $1: badgeResult is set from the row
\* found, then addPointsToUser if the badge has a points reward
CcBadgeRead(p) ==
  /\ pc[p] = "cc_badge_read"
  /\ LET b == Challenges[req[p].arg].badge_reward
     IN IF b \notin DOMAIN Badges
        THEN Goto(p, "cc_finish") /\ UNCHANGED <<loc, resp>>
        ELSE IF HasPointsReward(Badges[b])
        THEN /\ Goto(p, "apu_txn")
             /\ loc' = [loc EXCEPT ![p] =
                          [@ EXCEPT !.site = "chalBadge",
                                    !.points = Badges[b].points_reward,
                                    !.ptype = "badge",
                                    !.badgeEarned = TRUE,
                                    !.badgePts = Badges[b].points_reward]]
             /\ UNCHANGED resp
        ELSE /\ Goto(p, "cc_finish")
             /\ loc' = [loc EXCEPT ![p] =
                          [@ EXCEPT !.badgeEarned = TRUE,
                                    !.badgePts = Badges[b].points_reward]]
             /\ UNCHANGED resp
  /\ UNCHANGED <<store, static, now, req, calls, faults>>

\* the reads of the updated progress and of the new challenges, and the response
CcFinish(p) ==
  /\ pc[p] = "cc_finish"
  /\ LET l == loc[p]
         ch == Challenges[req[p].arg]
     IN Respond(p, [RespInit EXCEPT
                      !.status = 200, !.msg = "ok",
                      !.newTotal = l.newTotal, !.level = l.level, !.p2n = l.p2n,
                      !.badgeEarned = l.badgeEarned,
                      !.pointsEarned = ch.points_reward
                                       + (IF l.badgeEarned THEN l.badgePts ELSE 0)])
  /\ UNCHANGED <<store, static, now, req, calls, faults>>

----------------------------------------------------------------------------
(* The environment: the clock and the store's failures *)

Tick ==
  /\ now < MaxNow
  /\ now' = now + 1
  /\ UNCHANGED <<store, static, pc, req, loc, resp, calls, faults>>

\* client.query rejects (connection lost, commit failed): the statement or
\* transaction the process is at has no effect and throws
StorageFault(p) ==
  /\ faults < MaxFaults
  /\ pc[p] \in StatementLabels
  /\ faults' = faults + 1
  /\ Throw(p)
  /\ UNCHANGED <<store, static, now, req, calls>>

\* the addPoints bodies that pass validateRequiredParams and the points check
QueryingAdds == {r \in AddRequests : ~MissingParams(r, requiredFields)
                                      /\ ~PointsInvalid(r.arg)}

\* client.query rejects in the first step of a request r of R, the step that
\* runs up to the handler's first label (getUserById, the reads of the badge
\* and of the challenge, the queries of a handler that only reads): nothing
\* is written and handleError answers 500. R holds requests that reach a
\* query, those no check made before the first query turns away.
RequestFault(p, R) ==
  /\ faults < MaxFaults
  /\ CanStart(p)
  /\ \E r \in R : Begin(p, r)
  /\ faults' = faults + 1
  /\ Respond(p, InternalError)
  /\ UNCHANGED <<store, static, now>>

-----------------------------------------------------------------------------
(* challenges/progress.js *)

\* parseInt(req.query.challengeId) when the parameter is absent: falsy
NoChallenge == 0

StatusFilters == {"all", "active", "completed"}

ProgressRequests ==
  [op : {"getChallengeProgress"}, caller : Callers, userId : UserIds,
   arg : {NoChallenge, 1}, auto : {FALSE}, status : StatusFilters]

\* challengeStatus of a row of the progress query (row of
\* user_challenge_progress joined with challenge c), at the time of new Date()
ChallengeStatus(c, row) ==
  LET ch == Challenges[c]
  IN IF row.completed THEN "completed"
     ELSE IF ch.end_date # NoEnd /\ ch.end_date < now THEN "expired"
     ELSE IF ~ch.is_active THEN "inactive"
     ELSE "active"

\* canComplete: row.progress >= row.target && !row.completed &&
\* challengeStatus === 'active'
CanComplete(c, row) ==
  /\ row.progress >= row.target
  /\ ~row.completed
  /\ ChallengeStatus(c, row) = "active"

\* the rows of progressQuery: the user's rows, of one challenge if
\* challengeId is given, filtered by status
ProgressRows(r) ==
  {k \in DOMAIN progress :
     LET ch == Challenges[k[2]]
     IN /\ k[1] = r.userId
        /\ r.arg # NoChallenge => k[2] = r.arg
        /\ r.status = "active"
           => /\ ~progress[k].completed /\ ch.is_active /\ ch.start_date <= now
              /\ (ch.end_date = NoEnd \/ ch.end_date >= now)
        /\ r.status = "completed" => progress[k].completed}

\* a handler that closes the expired rows it reads
CloseExpired(p) ==
  /\ progress' = [k \in DOMAIN progress |->
                    IF ChallengeStatus(k[2], progress[k]) = "expired"
                    THEN MarkCompleted(progress[k], now)
                    ELSE progress[k]]
  /\ UNCHANGED <<userPoints, pointsHistory, userBadges>>

\* the statements of the handler are SELECTs: no table changes
ProgressSelectOnly(p) == UNCHANGED store

\* a getChallengeProgress request is taken in: getUserById and the
\* authorization check
GetChallengeProgress(p) ==
  /\ CanStart(p)
  /\ \E r \in ProgressRequests :
       /\ Begin(p, r)
       /\ IF r.userId \notin Users THEN Reject(p, 404, "user_not_found")
          ELSE IF Unauthorized(r) THEN Reject(p, 403, "forbidden")
          ELSE /\ Goto(p, "gcp_rows")
               /\ loc' = [loc EXCEPT ![p] = LocInit]
               /\ UNCHANGED resp
  /\ UNCHANGED <<store, static, now, faults>>

\* progressResult = await query(progressQuery, queryParams)
GcpRows(p) ==
  /\ pc[p] = "gcp_rows"
  /\ Goto(p, "gcp_history")
  /\ loc' = [loc EXCEPT ![p] =
               [@ EXCEPT !.rows = {[challengeId |-> k[2], row |-> progress[k]] :
                                     k \in ProgressRows(req[p])}]]
  /\ ProgressSelectOnly(p)
  /\ UNCHANGED <<static, now, req, resp, calls, faults>>

\* the queries of the badge rewards and of the history, then the response:
\* progressResult.rows.map(...) with the status computed at new Date()
GcpHistory(p) ==
  /\ pc[p] = "gcp_history"
  /\ Respond(p, [RespInit EXCEPT
                   !.status = 200, !.msg = "ok",
                   !.challengeProgress =
                      {[challengeId |-> e.challengeId,
                        status |-> ChallengeStatus(e.challengeId, e.row),
                        isCompleted |-> e.row.completed,
                        canComplete |-> CanComplete(e.challengeId, e.row)] :
                         e \in loc[p].rows}])
  /\ UNCHANGED <<store, static, now, req, calls, faults>>

----------------------------------------------------------------------------
(* rankings/all-time.js, rankings/weekly.js and rankings/monthly.js.        *)
(* The clock counts days; day 0 is Monday 2024-01-01.                       *)

MaxPast == 3

\* parseInt(req.query.userId) is NaN: no user to highlight
NoUser == 0
\* req.query.week / req.query.month is absent: the current week / month
NoPeriod == -99
\* weekEnd.setDate(weekEnd.getDate() + 6)
WeekSpan == 6
\* the days of the months of 2024, January first
MonthLengths == <<31, 29, 31, 30, 31, 30, 31, 31, 30, 31, 30, 31>>
\* new Date(year, monthNum, 0).getDate() of month m, counted from January 2024
MonthDays(m) == MonthLengths[m + 1]
\* if (limit > 100)
MaxLimit == 100

validSortOptions == {"total_points", "current_level", "badges_count", "challenges_completed"}

\* parseInt(req.query.limit) when the parameter is absent (NaN) or 0: falsy
NoLimit == 0
\* parseInt(req.query.limit) || 50
DefaultLimit == 50

LimitsIn == {NoLimit, 1, MaxLimit + 1}
WeeksIn == {NoPeriod, 0 - WeekSpan, 1}
MonthsIn == {NoPeriod, 1}

\* Date.getDay() of day d: 0 = Sunday, 1 = Monday, ...
getDay(d) == (d + 1) % 7

\* dayOfWeek === 0 ? 6 : dayOfWeek - 1
daysToMonday(dayOfWeek) == IF dayOfWeek = 0 THEN 6 ELSE dayOfWeek - 1

\* [weekStart, weekEnd] of weekly.js
WeekWindow(week) ==
  IF week = NoPeriod
  THEN LET weekStart == now - daysToMonday(getDay(now)) IN <<weekStart, weekStart + WeekSpan>>
  ELSE <<week, week + WeekSpan>>

RECURSIVE MonthStart(_)
\* the day of new Date(year, monthNum - 1, 1)
MonthStart(m) == IF m = 0 THEN 0 ELSE MonthStart(m - 1) + MonthDays(m - 1)

\* Date.getMonth() of day d
getMonth(d) ==
  CHOOSE m \in 0..(Len(MonthLengths) - 1) :
    MonthStart(m) <= d /\ d < MonthStart(m) + MonthDays(m)

\* [monthStart, monthEnd] of monthly.js
MonthWindow(month) ==
  LET m == IF month = NoPeriod THEN getMonth(now) ELSE month
  IN <<MonthStart(m), MonthStart(m) + MonthDays(m) - 1>>

\* the points_history rows of u with created_at >= $1 AND created_at <= $2
WindowEvents(u, w) ==
  {i \in DOMAIN pointsHistory :
     /\ pointsHistory[i].user_id = u
     /\ pointsHistory[i].created_at >= w[1]
     /\ pointsHistory[i].created_at <= w[2]}

RECURSIVE SumEarned(_)
\* SUM(ph.points_earned) over a set of rows
SumEarned(rows) ==
  IF rows = {} THEN 0
  ELSE LET i == CHOOSE x \in rows : TRUE
       IN pointsHistory[i].points_earned + SumEarned(rows \ {i})

\* COUNT(DISTINCT DATE(ph.created_at))
ActiveDays(u, w) == Cardinality({pointsHistory[i].created_at : i \in WindowEvents(u, w)})

\* a ranking query without its HAVING clause and with every user joined
PeriodRowsUnfiltered(w) == Users \cap DOMAIN userPoints

\* weekly_points / monthly_points of the ranking query: points_history JOIN
\* users JOIN user_points ... HAVING SUM(ph.points_earned) > 0
PeriodRows(w) ==
  {u \in Users \cap DOMAIN userPoints :
     WindowEvents(u, w) # {} /\ SumEarned(WindowEvents(u, w)) > 0}

\* weekly_points / monthly_points of the position query: points_history alone
PositionRows(w) ==
  {u \in Users : WindowEvents(u, w) # {} /\ SumEarned(WindowEvents(u, w)) > 0}

\* an unqualified column
NoTable == "none"

\* orderByClause of all-time.js: the columns, each with the name that
\* qualifies it
orderByClause(sortBy) ==
  CASE sortBy = "current_level" ->
         <<[table |-> "up", column |-> "current_level"],
           [table |-> "up", column |-> "total_points"]>>
    [] sortBy = "badges_count" ->
         <<[table |-> NoTable, column |-> "badges_count"],
           [table |-> "up", column |-> "total_points"]>>
    [] sortBy = "challenges_completed" ->
         <<[table |-> NoTable, column |-> "challenges_completed"],
           [table |-> "up", column |-> "total_points"]>>
    [] OTHER ->
         <<[table |-> "up", column |-> "total_points"],
           [table |-> "up", column |-> "current_level"]>>

\* the FROM clause of ranked_users in all-time.js: FROM user_stats (the alias
\* up exists only inside the user_stats subquery)
RankedUsersFrom == {"user_stats"}

\* ROW_NUMBER() OVER (ORDER BY ${orderByClause}, user_id ASC) FROM user_stats
\* names a table that is no entry of the FROM clause: the database rejects
\* the statement
OrderByOutOfScope(sortBy) ==
  \E i \in DOMAIN orderByClause(sortBy) :
    orderByClause(sortBy)[i].table \notin RankedUsersFrom \cup {NoTable}

WeeklyKey(u, w) == <<SumEarned(WindowEvents(u, w)), userPoints[u].total_points>>
WeeklyPositionKey(u, w) == <<SumEarned(WindowEvents(u, w))>>
MonthlyKey(u, w) ==
  <<SumEarned(WindowEvents(u, w)), ActiveDays(u, w), userPoints[u].total_points>>
MonthlyPositionKey(u, w) == <<SumEarned(WindowEvents(u, w)), ActiveDays(u, w)>>

\* a sorts before b under ORDER BY key DESC
KeyBefore(a, b) ==
  \E i \in DOMAIN a : a[i] > b[i] /\ \A j \in 1..(i - 1) : a[j] = b[j]

\* ROW_NUMBER() OVER (ORDER BY key DESC, user_id ASC)
RowNumber(rows, key, u) ==
  1 + Cardinality({v \in rows : \/ KeyBefore(key[v], key[u])
                               \/ (key[v] = key[u] /\ v < u)})

\* SELECT * FROM ranked_users ORDER BY position LIMIT $n, as the rows of the
\* response
RankedList(rows, key, limit) ==
  LET n == IF Cardinality(rows) < limit THEN Cardinality(rows) ELSE limit
  IN [i \in 1..n |->
        LET u == CHOOSE v \in rows : RowNumber(rows, key, v) = i
        IN [position |-> i, userId |-> u, primary |-> key[u][1],
            totalPoints |-> userPoints[u].total_points,
            currentLevel |-> userPoints[u].current_level]]

\* parseInt(req.query.limit) || 50
ParseLimit(limit) == IF limit = NoLimit THEN DefaultLimit ELSE limit

\* a handler that accepts every limit
LimitNeverTooHigh(limit) == FALSE

\* if (limit > 100)
LimitTooHigh(limit) == limit > MaxLimit

\* [weekStart, weekEnd] / [monthStart, monthEnd] of a weekly or monthly
\* request, computed from new Date() before the first query
RankingWindow(r) ==
  IF r.op = "rankWeekly" THEN WeekWindow(r.period)
  ELSE IF r.op = "rankMonthly" THEN MonthWindow(r.period)
  ELSE <<0, 0>>

\* the ranking statement of all-time.js is rejected by the database
StatementRejected(r) == r.op = "rankAllTime" /\ OrderByOutOfScope(r.sortBy)

\* rankingResult of weekly.js and monthly.js over the window w
RankingResult(r, w) ==
  CASE r.op = "rankWeekly" ->
         RankedList(PeriodRows(w), [u \in PeriodRows(w) |-> WeeklyKey(u, w)], ParseLimit(r.arg))
    [] r.op = "rankMonthly" ->
         RankedList(PeriodRows(w), [u \in PeriodRows(w) |-> MonthlyKey(u, w)], ParseLimit(r.arg))

\* userPosition.position of weekly.js and monthly.js over the window w (0:
\* userPosition is null)
UserPosition(r, w) ==
  CASE r.op = "rankWeekly" ->
         LET rows == PositionRows(w)
         IN IF r.userId \in rows \cap DOMAIN userPoints
            THEN RowNumber(rows, [u \in rows |-> WeeklyPositionKey(u, w)], r.userId)
            ELSE 0
    [] r.op = "rankMonthly" ->
         LET rows == PositionRows(w)
         IN IF r.userId \in rows \cap DOMAIN userPoints
            THEN RowNumber(rows, [u \in rows |-> MonthlyPositionKey(u, w)], r.userId)
            ELSE 0

RankingTargets ==
  [caller : Callers, userId : UserIds] \cup [caller : {Internal}, userId : {NoUser}]

RankingRequests ==
  {[op |-> q.op, caller |-> t.caller, userId |-> t.userId, arg |-> q.arg, auto |-> FALSE,
    sortBy |-> q.sortBy, period |-> q.period] :
     t \in RankingTargets,
     q \in [op : {"rankAllTime"}, arg : LimitsIn, sortBy : validSortOptions,
            period : {NoPeriod}]
           \cup [op : {"rankWeekly"}, arg : LimitsIn, sortBy : {"total_points"},
                 period : WeeksIn]
           \cup [op : {"rankMonthly"}, arg : LimitsIn, sortBy : {"total_points"},
                 period : MonthsIn]}

\* a handler that also records the request in the ledger
SelectAndLog(p) ==
  /\ pointsHistory' = Append(pointsHistory,
                             [user_id |-> 1, points_earned |-> 0, points_type |-> "ranking",
                              created_at |-> now])
  /\ UNCHANGED <<userPoints, userBadges, progress>>

\* the statements of the three handlers are SELECTs: no table changes
SelectOnly(p) == UNCHANGED store

\* a ranking request is taken in: the checks of limit and sortBy, the window
\* of the week or month, then for a highlighted user the authorization check
\* and getUserById
GetRanking(p) ==
  /\ CanStart(p)
  /\ \E r \in RankingRequests :
       /\ Begin(p, r)
       /\ IF LimitTooHigh(ParseLimit(r.arg)) THEN Reject(p, 400, "limit")
          ELSE IF r.op = "rankAllTime" /\ r.sortBy \notin validSortOptions
               THEN Reject(p, 400, "invalid_sort")
          ELSE IF r.userId # NoUser /\ Unauthorized(r) THEN Reject(p, 403, "forbidden")
          ELSE IF r.userId # NoUser /\ r.userId \notin Users
               THEN Reject(p, 404, "user_not_found")
          ELSE /\ Goto(p, "rk_list")
               /\ loc' = [loc EXCEPT ![p] = [LocInit EXCEPT !.window = RankingWindow(r)]]
               /\ UNCHANGED resp
  /\ UNCHANGED <<store, static, now, faults>>

\* rankingResult = await query(...): rejected in all-time.js, the rows of the
\* list in weekly.js and monthly.js
RkList(p) ==
  /\ pc[p] = "rk_list"
  /\ LET r == req[p]
     IN IF StatementRejected(r) THEN Throw(p)
        ELSE /\ Goto(p, IF r.userId # NoUser THEN "rk_position" ELSE "rk_stats")
             /\ loc' = [loc EXCEPT ![p] =
                          [@ EXCEPT !.ranking = RankingResult(r, loc[p].window)]]
             /\ UNCHANGED resp
  /\ SelectOnly(p)
  /\ UNCHANGED <<static, now, req, calls, faults>>

\* if (userId) userPositionResult = await query(...)
RkPosition(p) ==
  /\ pc[p] = "rk_position"
  /\ Goto(p, "rk_stats")
  /\ loc' = [loc EXCEPT ![p] =
               [@ EXCEPT !.userPosition = UserPosition(req[p], loc[p].window)]]
  /\ SelectOnly(p)
  /\ UNCHANGED <<static, now, req, resp, calls, faults>>

\* the queries of the statistics, then the response
RkStats(p) ==
  /\ pc[p] = "rk_stats"
  /\ Respond(p, [RespInit EXCEPT !.status = 200, !.msg = "ok",
                                 !.ranking = loc[p].ranking,
                                 !.userPosition = loc[p].userPosition])
  /\ SelectOnly(p)
  /\ UNCHANGED <<static, now, req, calls, faults>>

\* the ranking requests that reach getUserById: a user is highlighted and
\* the limit, sort and authorization checks pass
QueryingRankings ==
  {r \in RankingRequests :
     /\ ~LimitTooHigh(ParseLimit(r.arg))
     /\ ~(r.op = "rankAllTime" /\ r.sortBy \notin validSortOptions)
     /\ r.userId # NoUser /\ ~Unauthorized(r)}

----------------------------------------------------------------------------
(* The system *)

InitProgress ==
  (<<1, 1>> :> [progress |-> 3, target |-> 3, completed |-> FALSE, completed_at |-> NoEnd])
  @@ (<<2, 1>> :> [progress |-> 1, target |-> 3, completed |-> FALSE, completed_at |-> NoEnd])
  @@ (<<2, 2>> :> [progress |-> 2, target |-> 2, completed |-> FALSE, completed_at |-> NoEnd])
  @@ (<<1, 3>> :> [progress |-> 1, target |-> 1, completed |-> FALSE, completed_at |-> NoEnd])

InitProcs ==
  /\ pc = [p \in Procs |-> "idle"]
  /\ req = [p \in Procs |-> NoReq]
  /\ loc = [p \in Procs |-> LocInit]
  /\ resp = [p \in Procs |-> RespInit]
  /\ calls = 0
  /\ faults = 0

\* the users that have a user_points row from the start
InitialRows == {2}

Init ==
  /\ userPoints = [u \in InitialRows |-> NewUserPointsRow]
  /\ pointsHistory = <<>>
  /\ userBadges = [k \in Users \X BadgeIds |-> 0]
  /\ progress = InitProgress
  /\ levels = DefaultLevels
  /\ now = 0
  /\ InitProcs
  /\ lvTotal = 0
  /\ lvResult = 0

Next ==
  \/ \E p \in Procs :
       \/ AddPoints(p) \/ GetPoints(p) \/ GrantBadge(p) \/ CompleteChallenge(p)
       \/ GetUserLevel(p) \/ GetChallengeProgress(p) \/ GcpRows(p) \/ GcpHistory(p)
       \/ GetRanking(p) \/ RkList(p) \/ RkPosition(p) \/ RkStats(p)
       \/ ApuTxn(p) \/ GupSelect(p) \/ GupInsert(p) \/ ApuLevel(p)
       \/ GetLevel(p)
       \/ GbExists(p) \/ GbInsert(p) \/ GbAwarded(p) \/ GbUnlock(p) \/ GbContent(p)
       \/ CcProgress(p) \/ CcMark(p) \/ CcBadgeCheck(p) \/ CcBadgeInsert(p)
       \/ CcBadgeRead(p) \/ CcFinish(p)
       \/ StorageFault(p)
       \/ RequestFault(p, QueryingAdds \cup GetRequests \cup LevelGetRequests
                           \cup GrantRequests \cup CompleteRequests
                           \cup ProgressRequests \cup QueryingRankings)
  \/ Tick

Spec == Init /\ [][Next]_vars

\* the ledger alone: the handlers that only use addPointsToUser and getUserPoints
NextLedger ==
  \E p \in Procs :
    \/ AddPoints(p) \/ GetPoints(p)
    \/ ApuTxn(p) \/ GupSelect(p) \/ GupInsert(p) \/ ApuLevel(p) \/ GetLevel(p)
    \/ StorageFault(p)
    \/ RequestFault(p, QueryingAdds \cup GetRequests)

SpecLedger == Init /\ [][NextLedger]_vars

\* the badge grants alone: grantBadge and completeChallenge with its badge reward
NextBadges ==
  \E p \in Procs :
    \/ GrantBadge(p) \/ CompleteChallenge(p)
    \/ ApuTxn(p) \/ GupSelect(p) \/ GupInsert(p) \/ ApuLevel(p)
    \/ GbExists(p) \/ GbInsert(p) \/ GbAwarded(p) \/ GbUnlock(p) \/ GbContent(p)
    \/ CcProgress(p) \/ CcMark(p) \/ CcBadgeCheck(p) \/ CcBadgeInsert(p)
    \/ CcBadgeRead(p) \/ CcFinish(p)
    \/ StorageFault(p)
    \/ RequestFault(p, GrantRequests \cup CompleteRequests)

SpecBadges == Init /\ [][NextBadges]_vars

\* the challenges alone: completeChallenge with its rewards, the requests
\* arriving at any one instant of the clock
InitAnyTime ==
  /\ userPoints = [u \in InitialRows |-> NewUserPointsRow]
  /\ pointsHistory = <<>>
  /\ userBadges = [k \in Users \X BadgeIds |-> 0]
  /\ progress = InitProgress
  /\ levels = DefaultLevels
  /\ now \in 0..MaxNow
  /\ InitProcs
  /\ lvTotal = 0
  /\ lvResult = 0

NextChallenges ==
  \E p \in Procs :
    \/ CompleteChallenge(p)
    \/ ApuTxn(p) \/ GupSelect(p) \/ GupInsert(p) \/ ApuLevel(p)
    \/ CcProgress(p) \/ CcMark(p) \/ CcBadgeCheck(p) \/ CcBadgeInsert(p)
    \/ CcBadgeRead(p) \/ CcFinish(p)
    \/ StorageFault(p)
    \/ RequestFault(p, CompleteRequests)

SpecChallenges == InitAnyTime /\ [][NextChallenges]_vars

\* the four handlers together over a storage that does not fail, the
\* requests arriving at any one instant of the clock
NextHandlers ==
  \E p \in Procs :
    \/ AddPoints(p) \/ GetPoints(p) \/ GrantBadge(p) \/ CompleteChallenge(p)
    \/ ApuTxn(p) \/ GupSelect(p) \/ GupInsert(p) \/ ApuLevel(p) \/ GetLevel(p)
    \/ GbExists(p) \/ GbInsert(p) \/ GbAwarded(p) \/ GbUnlock(p) \/ GbContent(p)
    \/ CcProgress(p) \/ CcMark(p) \/ CcBadgeCheck(p) \/ CcBadgeInsert(p)
    \/ CcBadgeRead(p) \/ CcFinish(p)

SpecHandlers == InitAnyTime /\ [][NextHandlers]_vars

\* client.query rejects in a statement of getChallengeProgress
ProgressFault(p) ==
  /\ pc[p] \in {"gcp_rows", "gcp_history"}
  /\ StorageFault(p)

\* the challenges as they are read and completed, the requests arriving at
\* any one instant of the clock; the store may reject the queries of
\* getChallengeProgress (the failures of completeChallenge are those of
\* SpecChallenges)
NextProgress ==
  \E p \in Procs :
    \/ GetChallengeProgress(p) \/ GcpRows(p) \/ GcpHistory(p) \/ CompleteChallenge(p)
    \/ ApuTxn(p) \/ GupSelect(p) \/ GupInsert(p) \/ ApuLevel(p)
    \/ CcProgress(p) \/ CcMark(p) \/ CcBadgeCheck(p) \/ CcBadgeInsert(p)
    \/ CcBadgeRead(p) \/ CcFinish(p)
    \/ ProgressFault(p)
    \/ RequestFault(p, ProgressRequests)

\* user 1 has also joined challenge 2 and is below its target
JoinedProgress ==
  (<<1, 2>> :> [progress |-> 1, target |-> 2, completed |-> FALSE, completed_at |-> NoEnd])
  @@ InitProgress

InitJoined ==
  /\ userPoints = [u \in InitialRows |-> NewUserPointsRow]
  /\ pointsHistory = <<>>
  /\ userBadges = [k \in Users \X BadgeIds |-> 0]
  /\ progress = JoinedProgress
  /\ levels = DefaultLevels
  /\ now \in 0..MaxNow
  /\ InitProcs
  /\ lvTotal = 0
  /\ lvResult = 0

SpecProgress == InitJoined /\ [][NextProgress]_vars

\* client.query rejects in a statement of getPoints or getUserLevel
ReadFault(p) ==
  /\ loc[p].site = "get"
  /\ StorageFault(p)

\* the reads of points and level next to addPoints; the store may reject the
\* queries of the reads (the failures of addPoints are those of SpecLedger)
NextReads ==
  \E p \in Procs :
    \/ AddPoints(p) \/ GetPoints(p) \/ GetUserLevel(p)
    \/ ApuTxn(p) \/ GupSelect(p) \/ GupInsert(p) \/ ApuLevel(p) \/ GetLevel(p)
    \/ ReadFault(p)
    \/ RequestFault(p, GetRequests \cup LevelGetRequests)

\* a read that follows two overlapping addPoints is one request more than
\* MaxCalls: the requests of this specification are counted from one below 0
ReadCalls == MaxCalls + 1

InitReads ==
  /\ userPoints = [u \in InitialRows |-> NewUserPointsRow]
  /\ pointsHistory = <<>>
  /\ userBadges = [k \in Users \X BadgeIds |-> 0]
  /\ progress = InitProgress
  /\ levels = DefaultLevels
  /\ now = 0
  /\ pc = [p \in Procs |-> "idle"]
  /\ req = [p \in Procs |-> NoReq]
  /\ loc = [p \in Procs |-> LocInit]
  /\ resp = [p \in Procs |-> RespInit]
  /\ calls = MaxCalls - ReadCalls
  /\ faults = 0
  /\ lvTotal = 0
  /\ lvResult = 0

SpecReads == InitReads /\ [][NextReads]_vars

----------------------------------------------------------------------------
(* Direct calls of calculateLevel on arbitrary level tables *)

ThresholdsIn == {0, 100, 150, 300, 400}
TotalsIn == {0, 50, 100, 150, 250, 300, 350, 400, 500}

\* level tables ordered ascending by points_required, level 1 at 0 points:
\* a higher level_number has a higher points_required
LevelTables ==
  { { [level_number |-> i, points_required |-> t[i]] : i \in DOMAIN t } :
      t \in { f \in UNION { [1..m -> ThresholdsIn] : m \in 1..MaxLevels } :
                /\ f[1] = 0
                /\ \A i \in DOMAIN f : \A j \in DOMAIN f : i < j => f[i] < f[j] } }

InitLevel ==
  /\ userPoints = [u \in InitialRows |-> NewUserPointsRow]
  /\ pointsHistory = <<>>
  /\ userBadges = [k \in Users \X BadgeIds |-> 0]
  /\ progress = InitProgress
  /\ levels \in LevelTables
  /\ now = 0
  /\ InitProcs
  /\ lvTotal = 0
  /\ lvResult = 0

LevelCall ==
  /\ \E t \in TotalsIn :
       \E r \in calculateLevel(levels, t) :
         /\ lvTotal' = t
         /\ lvResult' = r.level_number
  /\ UNCHANGED <<store, levels, now, pc, req, loc, resp, calls, faults>>

SpecLevel == InitLevel /\ [][LevelCall]_vars

\* addPoints and getPoints over every level table, on a store that fails no
\* statement
InitPointsToNext ==
  /\ userPoints = [u \in InitialRows |-> NewUserPointsRow]
  /\ pointsHistory = <<>>
  /\ userBadges = [k \in Users \X BadgeIds |-> 0]
  /\ progress = InitProgress
  /\ levels \in LevelTables
  /\ now = 0
  /\ InitProcs
  /\ lvTotal = 0
  /\ lvResult = 0

NextPointsToNext ==
  \E p \in Procs :
    \/ AddPoints(p) \/ GetPoints(p)
    \/ ApuTxn(p) \/ GupSelect(p) \/ GupInsert(p) \/ ApuLevel(p) \/ GetLevel(p)

SpecPointsToNext == InitPointsToNext /\ [][NextPointsToNext]_vars

----------------------------------------------------------------------------
(* Properties *)

\* sum of points_earned over the rows of one user
HistorySum(u) ==
  LET RECURSIVE Go(_)
      Go(s) == IF s = <<>> THEN 0
               ELSE (IF Head(s).user_id = u THEN Head(s).points_earned ELSE 0) + Go(Tail(s))
  IN Go(pointsHistory)

HistoryCount(u, t) ==
  Cardinality({i \in DOMAIN pointsHistory :
                 pointsHistory[i].user_id = u /\ pointsHistory[i].points_type = t})

Ended(p) == pc[p] = "done"
Quiescent == \A p \in Procs : pc[p] \in {"idle", "done"}

\* the level_numbers calculateLevel may return for the stored total of u
StoredLevelOk(u) ==
  \E r \in calculateLevel(levels, userPoints[u].total_points) :
    userPoints[u].current_level = r.level_number

\* C1: for every user with a user_points row, the stored total_points equals
\* the sum of points_earned over the user's points_history rows, in every
\* reachable state.
C1_TotalEqualsHistory ==
  \A u \in DOMAIN userPoints : userPoints[u].total_points = HistorySum(u)

\* C2: for a user whose user_points row exists from the start (total 0), under
\* every interleaving of the statements of concurrent addPointsToUser calls
\* the stored total is the exact sum of the deltas whose transaction
\* committed: none is lost, none is applied twice.
C2_NoLostUpdate ==
  \A u \in InitialRows :
    /\ u \in DOMAIN userPoints
    /\ userPoints[u].total_points = HistorySum(u)

\* two addPointsToUser calls for the same user are both past their
\* transaction and both before their level update
C2_Witness ==
  \E u \in InitialRows :
    /\ \A p \in Procs : pc[p] = "apu_level" /\ req[p].userId = u /\ loc[p].points > 0
    /\ userPoints[u].total_points = loc[1].points + loc[2].points

\* C3: once every call has returned (no storage failure involved), the stored
\* current_level of every user is the level of the largest points_required
\* that is <= the stored total_points.
C3_LevelMatchesTotal ==
  (Quiescent /\ faults = 0) => \A u \in DOMAIN userPoints : StoredLevelOk(u)

\* C4: on every level table ordered ascending by points_required with level 1
\* at 0 points and every total >= 0, calculateLevel returns a level whose
\* points_required is the largest one <= total; with (1,0),(2,100),(3,300)
\* and total 250 it returns level 2.
C4_CalculateLevel ==
  lvResult # 0 =>
    /\ \E r \in levels :
         /\ r.level_number = lvResult
         /\ r.points_required <= lvTotal
         /\ \A q \in levels : q.points_required <= lvTotal
                                => q.points_required <= r.points_required
    /\ (levels = DefaultLevels /\ lvTotal = 250) => lvResult = 2

C4_Witness == levels = DefaultLevels /\ lvTotal = 250 /\ lvResult = 2

\* C5: the transaction of addPointsToUser is all-or-nothing: a step that
\* leaves it committed has appended the event and raised the user's stored
\* total_points by the event's points, and a step that leaves it failed has
\* changed neither table.
C5_EventWithIncrement ==
  [][\A p \in Procs :
       pc[p] = "apu_txn" /\ pc'[p] # "apu_txn" =>
         LET u == req[p].userId
         IN IF pc'[p] = "gup_select"
            THEN /\ Len(pointsHistory') = Len(pointsHistory) + 1
                 /\ u \in DOMAIN userPoints /\ u \in DOMAIN userPoints'
                 /\ userPoints'[u].total_points
                      = userPoints[u].total_points + loc[p].points
            ELSE UNCHANGED <<pointsHistory, userPoints>>]_vars

\* C6: when an addPoints request succeeds and no other request ever ran, the
\* newTotal of its response is the total_points stored for the user.
C6_NewTotalIsStored ==
  \A p \in Procs :
    (Ended(p) /\ calls = 1 /\ req[p].op = "addPoints" /\ resp[p].status = 200)
      => /\ req[p].userId \in DOMAIN userPoints
         /\ resp[p].newTotal = userPoints[req[p].userId].total_points

\* C7: after two grantBadge calls by an internal caller for the same user and
\* the active badge with a points reward (no storage failure involved), there
\* is exactly one user_badges row, exactly one 'badge' event, and the total
\* has risen by the reward once.
C7_GrantTwiceAwardsOnce ==
  \A u \in Users :
    ( /\ faults = 0
      /\ \A p \in Procs : /\ Ended(p)
                          /\ req[p] = [op |-> "grantBadge", caller |-> Internal,
                                       userId |-> u, arg |-> 1, auto |-> FALSE] )
      => /\ userBadges[<<u, 1>>] = 1
         /\ HistoryCount(u, "badge") = 1
         /\ u \in DOMAIN userPoints
         /\ userPoints[u].total_points = Badges[1].points_reward

\* C8: in every reachable state there is at most one user_badges row per
\* (user_id, badge_id).
C8_OneRowPerUserBadge ==
  \A k \in DOMAIN userBadges : userBadges[k] <= 1

\* a grantBadge and a completeChallenge for the same user and badge both
\* passed their existence check and are at their INSERT: one row is stored
\* after one of them inserted
C8_Witness ==
  \E p \in Procs : \E q \in Procs :
    /\ req[p].op = "grantBadge" /\ req[q].op = "completeChallenge"
    /\ req[p].userId = req[q].userId
    /\ Challenges[req[q].arg].badge_reward = req[p].arg
    /\ pc[q] = "cc_badge_insert"
    /\ pc[p] \in {"apu_txn", "gup_select", "gup_insert", "apu_level", "gb_awarded",
                  "gb_unlock", "gb_content"}
    /\ userBadges[<<req[p].userId, req[p].arg>>] = 1

\* C9: a grantBadge whose INSERT is rejected by the (user_id, badge_id)
\* uniqueness constraint ends with the already-granted outcome of the
\* existence check (400), and appends no points.
C9_DuplicateIsAlreadyGranted ==
  [][\A p \in Procs :
       ( /\ pc[p] = "gb_insert"
         /\ UniqueUserBadgeViolated(req[p].userId, req[p].arg)
         /\ pc'[p] # "gb_insert"
         /\ faults' = faults )
       => /\ resp'[p].status = 400 /\ resp'[p].msg = "already_has_badge"
          /\ pointsHistory' = pointsHistory]_vars

\* C10: after a grantBadge call for a badge with a points reward has ended
\* (it is the only request that ever ran, for a user whose user_points row
\* exists), the user_badges row exists if and only if the badge's event and
\* its total_points increment exist.
C10_GrantAllOrNothing ==
  \A p \in Procs :
    ( /\ Ended(p) /\ calls = 1 /\ req[p].op = "grantBadge"
      /\ req[p].userId \in InitialRows
      /\ Badges[req[p].arg].points_reward > 0 )
    => LET u == req[p].userId
       IN (userBadges[<<u, req[p].arg>>] = 1)
            <=> ( /\ HistoryCount(u, "badge") = 1
                  /\ userPoints[u].total_points = Badges[req[p].arg].points_reward )

----------------------------------------------------------------------------
(* Properties of challenges/complete.js *)

\* the progress row a completeChallenge request is about
ProgressKey(r) == <<r.userId, r.arg>>

\* now is outside the window of challenge c
OutsideWindow(c) ==
  \/ now < Challenges[c].start_date
  \/ Challenges[c].end_date # NoEnd /\ now > Challenges[c].end_date

\* the process is inside the badge reward of completeChallenge
InBadgeReward(p) ==
  \/ pc[p] \in {"cc_badge_check", "cc_badge_insert", "cc_badge_read"}
  \/ pc[p] \in ApuLabels /\ loc[p].site = "chalBadge"

\* the statement the process is at throws in this step
Throws(p) ==
  /\ pc'[p] # pc[p]
  /\ \/ faults' # faults
     \/ pc[p] = "cc_badge_insert"
          /\ UniqueUserBadgeViolated(req[p].userId, Challenges[req[p].arg].badge_reward)
     \/ pc[p] = "gup_insert" /\ UserPointsKeyViolated(req[p].userId)

\* C11: a completeChallenge call that finds its progress row already
\* completed (the store answering) ends with the already-completed outcome
\* (400), and neither that step nor the start of any request changes
\* user_points, points_history, user_badges or the progress row.
C11_CompletedIsConflict ==
  [][\A p \in Procs :
       /\ ( /\ pc[p] = "cc_progress" /\ pc'[p] # "cc_progress"
            /\ ProgressKey(req[p]) \in DOMAIN progress
            /\ progress[ProgressKey(req[p])].completed
            /\ faults' = faults )
          => /\ pc'[p] = "done"
             /\ resp'[p].status = 400 /\ resp'[p].msg = "already_completed"
             /\ UNCHANGED store
       /\ CompleteChallenge(p) => UNCHANGED store]_vars

\* a second completeChallenge for a completed challenge was answered with the
\* already-completed outcome, the reward of the first being in the ledger once
C11_Witness ==
  \E p \in Procs :
    /\ Ended(p) /\ req[p].op = "completeChallenge"
    /\ resp[p].status = 400 /\ resp[p].msg = "already_completed"
    /\ progress[ProgressKey(req[p])].completed
    /\ HistoryCount(req[p].userId, "challenge") = 1

\* C12: once two completeChallenge calls for the same user and the challenge
\* with a points reward have returned (no storage failure involved), the
\* reward is in the ledger at most once, exactly once if a call succeeded,
\* and at most one call succeeded.
C12_RewardDepositedOnce ==
  \A u \in Users :
    ( /\ Quiescent /\ faults = 0
      /\ \A p \in Procs : /\ req[p].op = "completeChallenge"
                          /\ req[p].userId = u /\ req[p].arg = 1 )
    => LET ok == {p \in Procs : resp[p].status = 200}
       IN /\ Cardinality(ok) <= 1
          /\ HistoryCount(u, "challenge") <= 1
          /\ ok # {} => HistoryCount(u, "challenge") = 1

\* C13: in every step, a progress row that is completed is still there and
\* still completed afterwards.
C13_CompletedMonotonic ==
  [][\A k \in DOMAIN progress :
       progress[k].completed => k \in DOMAIN progress' /\ progress'[k].completed]_vars

\* two completeChallenge calls have both run their UPDATE on the same row
C13_Witness ==
  /\ \A p \in Procs : /\ req[p].op = "completeChallenge"
                      /\ pc[p] = "apu_txn" /\ loc[p].site = "chal"
  /\ ProgressKey(req[1]) = ProgressKey(req[2])
  /\ progress[ProgressKey(req[1])].completed

\* C14: a completeChallenge request made outside the challenge's window ends
\* at once with a failure, and a call that finds no progress row, a completed
\* row, or progress < target without autoComplete ends with a failure; in
\* each case no table is changed.
C14_FailsWithoutChange ==
  [][\A p \in Procs :
       /\ (CompleteChallenge(p) /\ OutsideWindow(req'[p].arg))
          => /\ pc'[p] = "done"
             /\ resp'[p].status \in {400, 403, 404}
             /\ UNCHANGED store
       /\ ( /\ pc[p] = "cc_progress" /\ pc'[p] # "cc_progress"
            /\ faults' = faults
            /\ LET k == ProgressKey(req[p])
               IN \/ k \notin DOMAIN progress
                  \/ progress[k].completed
                  \/ ~req[p].auto /\ progress[k].progress < progress[k].target )
          => /\ pc'[p] = "done"
             /\ resp'[p].status \in {400, 404}
             /\ UNCHANGED store]_vars

\* one call was refused because the challenge had expired, another because
\* the user has no progress row, and the tables are as they were at the start
C14_Witness ==
  \E p \in Procs : \E q \in Procs :
    /\ Ended(p) /\ resp[p].status = 400 /\ resp[p].msg = "expired"
    /\ Ended(q) /\ resp[q].status = 404 /\ resp[q].msg = "not_participating"
    /\ pointsHistory = <<>>
    /\ progress = InitProgress
    /\ \A k \in DOMAIN userBadges : userBadges[k] = 0

\* C15: after a completeChallenge call for a challenge with a points reward
\* has ended (it is the only request that ever ran, for a user whose
\* user_points row exists), the progress row is completed if and only if the
\* challenge's event is in points_history and in total_points.
C15_CompletedIffDeposited ==
  \A p \in Procs :
    ( /\ Ended(p) /\ calls = 1 /\ req[p].op = "completeChallenge"
      /\ req[p].userId \in InitialRows
      /\ ProgressKey(req[p]) \in DOMAIN progress
      /\ Challenges[req[p].arg].points_reward > 0 )
    => LET u == req[p].userId
       IN progress[ProgressKey(req[p])].completed
            <=> ( /\ HistoryCount(u, "challenge") = 1
                  /\ userPoints[u].total_points >= Challenges[req[p].arg].points_reward )

\* C16: a step in which a statement of the badge reward of completeChallenge
\* throws leaves the progress row completed and points_history and
\* user_points as they are, and takes the call to its final reads; from
\* there (the store answering) the call responds 200 with the row completed.
C16_BadgeFailureKeepsCompletion ==
  [][\A p \in Procs :
       /\ (InBadgeReward(p) /\ Throws(p))
          => /\ pc'[p] = "cc_finish"
             /\ progress'[ProgressKey(req[p])].completed
             /\ UNCHANGED <<progress, pointsHistory, userPoints>>
       /\ (pc[p] = "cc_finish" /\ pc'[p] # "cc_finish" /\ faults' = faults)
          => /\ resp'[p].status = 200
             /\ progress'[ProgressKey(req[p])].completed]_vars

\* the only call that ran completed its challenge, deposited the points and
\* answered 200 although a statement of its badge reward failed
C16_Witness ==
  \E p \in Procs :
    /\ Ended(p) /\ calls = 1 /\ faults = 1
    /\ req[p].op = "completeChallenge" /\ resp[p].status = 200
    /\ Challenges[req[p].arg].badge_reward # NoBadge
    /\ userBadges[<<req[p].userId, Challenges[req[p].arg].badge_reward>>] = 0
    /\ progress[ProgressKey(req[p])].completed
    /\ HistoryCount(req[p].userId, "challenge") = 1

\* C17: a completeChallenge that answered 200 for a challenge with a badge
\* reward while the user has no user_badges row for it (the grant failed)
\* does not carry the badge fields of a completion without a grant
\* (badgeEarned null, pointsEarned = the challenge's points).
C17_PartialFailureFlagged ==
  \A p \in Procs :
    LET ch == Challenges[req[p].arg]
    IN ( /\ Ended(p) /\ req[p].op = "completeChallenge" /\ resp[p].status = 200
         /\ ch.badge_reward # NoBadge
         /\ userBadges[<<req[p].userId, ch.badge_reward>>] = 0 )
       => ~( /\ resp[p].badgeEarned = FALSE
             /\ resp[p].pointsEarned = ch.points_reward )

----------------------------------------------------------------------------
(* The stores a ranking is asked over *)

\* the deposits made before the ranking is asked for
PastEvents ==
  [user_id : Users, points_earned : PointsIn \ {0}, points_type : {"order"},
   created_at : 0..MaxNow]

\* the ledgers of past deposits, oldest first; the rows of one day are listed
\* by user (no query reads the order of the rows of a day)
PastHistories ==
  {h \in UNION {[1..n -> PastEvents] : n \in 0..MaxPast} :
     \A i \in DOMAIN h : \A j \in DOMAIN h :
        i <= j => \/ h[i].created_at < h[j].created_at
                  \/ (h[i].created_at = h[j].created_at /\ h[i].user_id <= h[j].user_id)}

\* the totals u has had: its deposits summed up to each row of points_history
PastTotals(u) ==
  {SumEarned({i \in 1..n : pointsHistory[i].user_id = u}) : n \in 0..Len(pointsHistory)}

\* the user_points row of a user whose level was last written from the read
\* total t: t is the stored total, or an earlier one when the level update
\* of a deposit did not run or ran on an older read
PastRow(total, t) ==
  LET lv == (CHOOSE r \in calculateLevel(DefaultLevels, t) : TRUE).level_number
  IN [total_points |-> total, current_level |-> lv,
      points_to_next_level |-> PointsToNextLevel(DefaultLevels, lv, t)]

\* a store the ledger can have produced: every user has its user_points row,
\* total_points is the sum of the user's deposits (no ranking that answers
\* reads user_badges or user_challenge_progress). The requests that made the
\* store are over; the ranking request is the one that is left.
InitRanking ==
  /\ pointsHistory \in PastHistories
  /\ userPoints \in
       {[u \in Users |-> PastRow(HistorySum(u), t[u])] :
          t \in {f \in [Users -> UNION {PastTotals(u) : u \in Users}] :
                   \A u \in Users : f[u] \in PastTotals(u)}}
  /\ userBadges = [k \in Users \X BadgeIds |-> 0]
  /\ progress = InitProgress
  /\ levels = DefaultLevels
  /\ now = MaxNow
  /\ pc = [p \in Procs |-> "idle"]
  /\ req = [p \in Procs |-> NoReq]
  /\ loc = [p \in Procs |-> LocInit]
  /\ resp = [p \in Procs |-> RespInit]
  /\ calls = MaxCalls - 1
  /\ faults = 0
  /\ lvTotal = 0
  /\ lvResult = 0

\* the request is served by one worker; the workers are interchangeable
RankingProc == CHOOSE p \in Procs : TRUE

NextRanking ==
  \/ GetRanking(RankingProc) \/ RkList(RankingProc)
  \/ RkPosition(RankingProc) \/ RkStats(RankingProc)
  \/ StorageFault(RankingProc)
  \/ RequestFault(RankingProc, QueryingRankings)

SpecRanking == InitRanking /\ [][NextRanking]_vars

\* a ranking request that was answered
Ranked(p) ==
  /\ Ended(p) /\ resp[p].status = 200
  /\ req[p].op \in {"rankAllTime", "rankWeekly", "rankMonthly"}

\* C18: an all-time request sorted by total_points that the handler's checks
\* let through (limit, authorization, existence of the highlighted user) is
\* answered, over a store that has failed no statement, with a ranking in
\* which of two rows with equal totalPoints the one with the smaller userId
\* comes first.
C18_TiesByUserId ==
  \A p \in Procs :
    (/\ Ended(p) /\ req[p].op = "rankAllTime" /\ req[p].sortBy = "total_points"
     /\ resp[p].status \notin {400, 403, 404} /\ faults = 0)
    => /\ resp[p].status = 200
       /\ LET rk == resp[p].ranking
          IN \A i \in DOMAIN rk : \A j \in DOMAIN rk :
               (i < j /\ rk[i].totalPoints = rk[j].totalPoints)
               => rk[i].userId < rk[j].userId

\* C19: in every answer of every ranking (over a store in which every
\* current_level is the level of the stored total), of two rows tied on the
\* primary sort key the one with more totalPoints comes first, and of two
\* rows tied on both the one with the smaller userId comes first.
C19_TieBreaks ==
  \A p \in Procs :
    (Ranked(p) /\ \A u \in DOMAIN userPoints : StoredLevelOk(u))
    => LET rk == resp[p].ranking
       IN \A i \in DOMAIN rk : \A j \in DOMAIN rk :
            (i < j /\ rk[i].primary = rk[j].primary)
            => \/ rk[i].totalPoints > rk[j].totalPoints
               \/ (rk[i].totalPoints = rk[j].totalPoints /\ rk[i].userId < rk[j].userId)

\* C20: in every answer of a ranking with a highlighted user (over a store
\* in which every current_level is the level of the stored total), if the
\* user is in the returned list then userPosition is the position of its row
\* there.
C20_PositionMatchesList ==
  \A p \in Procs :
    (Ranked(p) /\ req[p].userId # NoUser /\ \A u \in DOMAIN userPoints : StoredLevelOk(u))
    => LET rk == resp[p].ranking
       IN \A i \in DOMAIN rk :
            rk[i].userId = req[p].userId => resp[p].userPosition = rk[i].position

\* C21: in every answer of every ranking the rows carry the positions 1, 2,
\* ... in order, each once, no user has two rows, and every row belongs to a
\* user whose points of the window (weekly, monthly) or whose total_points
\* (all-time) are above zero; when the limit does not cut the list the rows
\* are numbered 1..N. (The answers are those of the weekly and monthly
\* rankings: the all-time ranking gives none.)
C21_DensePositions ==
  \A p \in Procs :
    Ranked(p)
    => LET rk == resp[p].ranking
       IN /\ \A i \in DOMAIN rk : rk[i].position = i
          /\ \A i \in DOMAIN rk : \A j \in DOMAIN rk : rk[i].userId = rk[j].userId => i = j
          /\ \A i \in DOMAIN rk :
                /\ rk[i].userId \in Users
                /\ IF req[p].op = "rankAllTime"
                   THEN userPoints[rk[i].userId].total_points > 0
                   ELSE rk[i].primary > 0
          /\ {rk[i].position : i \in DOMAIN rk} = 1..Len(rk)

\* a weekly answer that lists two users, and leaves out no row by its limit
C21_Witness ==
  \E p \in Procs :
    /\ Ranked(p) /\ req[p].op = "rankWeekly" /\ req[p].arg = NoLimit
    /\ Len(resp[p].ranking) = 2

\* a step of p on a ranking request: it takes the request in, runs one of
\* its statements or ends it
RankingStep(p) ==
  /\ pc'[p] # pc[p] \/ req'[p] # req[p] \/ resp'[p] # resp[p]
  /\ req'[p].op \in {"rankAllTime", "rankWeekly", "rankMonthly"}

\* C22: every step of a ranking request (all-time, weekly or monthly; any
\* limit, sort, period, highlighted user and caller; answered, rejected or
\* failed) leaves every table as it was: user_points, points_history, user_badges,
\* user_challenge_progress and levels.
C22_RankingReadsOnly ==
  [][\A p \in Procs : RankingStep(p) => UNCHANGED <<store, levels>>]_vars

\* a monthly ranking answered with rows and with the position of the
\* highlighted user
C22_Witness ==
  \E p \in Procs :
    /\ Ranked(p) /\ req[p].op = "rankMonthly"
    /\ Len(resp[p].ranking) > 0 /\ resp[p].userPosition > 0

\* the Monday-to-Sunday week that holds day d (day 0 is a Monday)
IsoWeek(d) == LET monday == d - (d % 7) IN <<monday, monday + 6>>

\* C23: every row of every weekly answer carries the sum of the user's
\* events of the Monday-to-Sunday week that holds the reference day: today
\* when no week is supplied, the supplied day otherwise.
C23_MondayToSunday ==
  \A p \in Procs :
    (Ranked(p) /\ req[p].op = "rankWeekly")
    => LET day == IF req[p].period = NoPeriod THEN now ELSE req[p].period
           rk == resp[p].ranking
       IN \A i \in DOMAIN rk :
            rk[i].primary = SumEarned(WindowEvents(rk[i].userId, IsoWeek(day)))

\* C24: a ranking request with a limit above 100 ends with 400 and no
\* ranking; an answered request carries at most 100 rows, at most limit rows
\* when 1 <= limit <= 100, and at most 50 when the limit is absent.
C24_LimitBounds ==
  \A p \in Procs :
    (Ended(p) /\ req[p].op \in {"rankAllTime", "rankWeekly", "rankMonthly"})
    => /\ req[p].arg > 100 => (resp[p].status = 400 /\ resp[p].ranking = <<>>)
       /\ resp[p].status = 200
          => /\ Len(resp[p].ranking) <= 100
             /\ (1 <= req[p].arg /\ req[p].arg <= 100) => Len(resp[p].ranking) <= req[p].arg
             /\ req[p].arg = NoLimit => Len(resp[p].ranking) <= 50

\* a weekly answer cut to one row by limit 1 while two users qualify
C24_Witness ==
  \E p \in Procs :
    /\ Ranked(p) /\ req[p].op = "rankWeekly" /\ req[p].arg = 1
    /\ Len(resp[p].ranking) = 1
    /\ Cardinality(PeriodRows(WeekWindow(req[p].period))) = 2

-----------------------------------------------------------------------------
(* Access control and input validation *)

\* the process that takes the step
Acts(p) == pc'[p] # pc[p] \/ req'[p] # req[p] \/ resp'[p] # resp[p]

\* the stored rows of user u: its user_points row, its rows of
\* points_history, its user_badges and its user_challenge_progress rows
UserRows(u) ==
  << {userPoints[x] : x \in {u} \cap DOMAIN userPoints},
     SelectSeq(pointsHistory, LAMBDA r : r.user_id = u),
     [k \in {x \in DOMAIN userBadges : x[1] = u} |-> userBadges[k]],
     [k \in {x \in DOMAIN progress : x[1] = u} |-> progress[k]] >>

\* C25: no step of a request made by a non-internal caller v changes a
\* stored row of a user other than v, and no step of a grantBadge request
\* made by a non-internal caller changes any table.
C25_OnlyOwnRows ==
  [][\A p \in Procs :
       (Acts(p) /\ req'[p].caller # Internal)
       => /\ \/ UNCHANGED store
             \/ \A u \in UserIds \ {req'[p].caller} : UNCHANGED UserRows(u)
          /\ req'[p].op = "grantBadge" => UNCHANGED store]_vars

\* user 1 asked for a badge for itself and was refused, while an internal
\* caller granted user 2 a badge
C25_Witness ==
  \E p \in Procs : \E q \in Procs :
    /\ Ended(p) /\ req[p].op = "grantBadge" /\ req[p].caller = 1 /\ req[p].userId = 1
    /\ resp[p].status = 403
    /\ req[q].op = "grantBadge" /\ req[q].caller = Internal /\ req[q].userId = 2
    /\ userBadges[<<2, req[q].arg>>] = 1

\* a getPoints or grantBadge request of a non-internal caller for another,
\* existing user (and, for grantBadge, an active badge)
ForeignRequest(r) ==
  /\ r.op \in {"getPoints", "grantBadge"}
  /\ r.caller # Internal /\ r.userId \in Users /\ r.userId # r.caller
  /\ r.op = "grantBadge" => Badges[r.arg].is_active

\* C26: the answer to a getPoints or grantBadge request of a non-internal
\* caller v for another user u is the same in every state of the store: it
\* is the answer the request gets over the initial store, 403, whatever rows
\* u has come to hold.
C26_ResponseIndependentOfStore ==
  \A p \in Procs :
    (Ended(p) /\ ForeignRequest(req[p]))
    => (resp[p].status = 403 /\ resp[p].msg = "forbidden")

\* p has been answered 200 to its addPoints(u, a) and in this step the
\* getUserPoints of q's getPoints(u) returns the row it will report
AddThenGet(p, q, u) ==
  /\ p # q
  /\ Ended(p) /\ req[p].op = "addPoints" /\ req[p].userId = u /\ resp[p].status = 200
  /\ req[q].op = "getPoints" /\ req[q].userId = u
  /\ pc[q] \in {"gup_select", "gup_insert"} /\ pc'[q] = "get_level"

\* C27: for a user that had no user_points row and no points_history row, a
\* getPoints that reads the user's row after the user's only addPoints(+a)
\* has been answered reads (and so reports) totalPoints = a, and the user's
\* history is the one row of a points.
C27_FirstDepositVisible ==
  [][\A p \in Procs : \A q \in Procs : \A u \in Users \ InitialRows :
       AddThenGet(p, q, u)
       => /\ loc'[q].upTotal = req[p].arg
          /\ LET h == SelectSeq(pointsHistory, LAMBDA r : r.user_id = u)
             IN Len(h) = 1 /\ h[1].points_earned = req[p].arg]_vars

\* an addPoints body the handler must refuse
BadAddRequest(r) ==
  /\ r.op = "addPoints"
  /\ r.missing # {} \/ r.arg <= 0 \/ r.userId \notin Users

\* C28: an addPoints request with points <= 0, without one of userId, points
\* and pointsType, or for an unknown userId is refused (400, 400, 404) in
\* the step that takes it, and that step leaves every table unchanged.
C28_BadAddRejected ==
  [][\A p \in Procs :
       (Acts(p) /\ BadAddRequest(req'[p]))
       => /\ UNCHANGED <<store, levels>>
          /\ pc'[p] = "done"
          /\ resp'[p].status =
               IF req'[p].missing = {} /\ req'[p].arg > 0 THEN 404 ELSE 400]_vars

\* an addPoints without pointsType refused after another request has
\* deposited points
C28_Witness ==
  \E p \in Procs :
    /\ Ended(p) /\ req[p].op = "addPoints" /\ req[p].missing = {"pointsType"}
    /\ resp[p].status = 400
    /\ pointsHistory # <<>>

-----------------------------------------------------------------------------
(* The ledger as a log *)

\* C29: every step leaves points_history as it was or appends one row to
\* it, and the appended row has points_earned > 0: no row is changed or
\* removed, whichever of addPoints, grantBadge, completeChallenge and its
\* badge reward makes the deposit.
C29_AppendOnlyPositive ==
  [][\/ pointsHistory' = pointsHistory
     \/ /\ Len(pointsHistory') = Len(pointsHistory) + 1
        /\ SubSeq(pointsHistory', 1, Len(pointsHistory)) = pointsHistory
        /\ pointsHistory'[Len(pointsHistory')].points_earned > 0]_vars

\* the ledger holds a row of a challenge reward and, after it, a row of the
\* badge the challenge grants
C29_Witness ==
  \E i \in DOMAIN pointsHistory : \E j \in DOMAIN pointsHistory :
    /\ i < j
    /\ pointsHistory[i].points_type = "challenge"
    /\ pointsHistory[j].points_type = "badge"

\* C30: every user_badges row is of a badge whose is_active flag is true
\* (the flags do not change, so the flag at grant time is the flag of the
\* table).
C30_OnlyActiveBadges ==
  \A k \in DOMAIN userBadges : userBadges[k] > 0 => Badges[k[2]].is_active

-----------------------------------------------------------------------------
(* Unlocked content, read models and first accesses *)

\* the level_number calculateLevel gives for a total over the stored table
LevelOf(t) == (CHOOSE r \in calculateLevel(levels, t) : TRUE).level_number

\* checkUnlockedContent of p's grantBadge reads the row of u, the reward of
\* the grant being the last row of the ledger of u and the stored total of u
\* the sum of its rows
GrantAnswered(p, u) ==
  /\ pc[p] = "gb_unlock" /\ pc'[p] = "gb_content"
  /\ req[p].userId = u /\ u \in DOMAIN userPoints
  /\ HasPointsReward(Badges[req[p].arg])
  /\ userPoints[u].total_points = HistorySum(u)
  /\ LET h == SelectSeq(pointsHistory, LAMBDA r : r.user_id = u)
     IN Len(h) > 0 /\ h[Len(h)].points_type = "badge"

\* C31: the levelUp that a grantBadge finds after its deposit, and reports
\* with its 200, is true exactly when the deposit moved the user's total
\* from below a level threshold to at or above it, that is when the level of
\* the total before the deposit differs from the level of the total after it.
C31_LevelUpOnCrossing ==
  [][\A p \in Procs : \A u \in Users :
       GrantAnswered(p, u)
       => LET after == userPoints[u].total_points
              before == after - Badges[req[p].arg].points_reward
          IN loc'[p].levelUp = (LevelOf(before) # LevelOf(after))]_vars

\* a step of p on a getChallengeProgress request: it takes the request in,
\* runs one of its statements or ends it
ProgressStep(p) ==
  /\ pc'[p] # pc[p] \/ req'[p] # req[p] \/ resp'[p] # resp[p]
  /\ req'[p].op = "getChallengeProgress"

\* C32: a getChallengeProgress request leaves every table unchanged, and
\* every step of every operation leaves each stored progress row as it was
\* or turns a row that was not completed into a completed one: the statuses
\* expired and inactive exist only in the answers.
C32_StatusNotStored ==
  [][/\ \A p \in Procs : ProgressStep(p) => UNCHANGED <<store, levels>>
     /\ DOMAIN progress' = DOMAIN progress
     /\ \A k \in DOMAIN progress :
          \/ progress'[k] = progress[k]
          \/ /\ ~progress[k].completed
             /\ progress'[k] = [progress[k] EXCEPT !.completed = TRUE,
                                                   !.completed_at = now]]_vars

\* an answer that reports an expired row and an inactive row while both
\* stored rows are still not completed
C32_Witness ==
  \E p \in Procs :
    /\ Ended(p) /\ req[p].op = "getChallengeProgress" /\ resp[p].status = 200
    /\ \E e \in resp[p].challengeProgress : \E f \in resp[p].challengeProgress :
         /\ e.status = "expired" /\ ~progress[<<req[p].userId, e.challengeId>>].completed
         /\ f.status = "inactive" /\ ~progress[<<req[p].userId, f.challengeId>>].completed

\* a getPoints or addPoints request the handler accepts: complete, with a
\* positive amount, for an existing user, from an authorized caller
AcceptedAccess(r) ==
  /\ r.op \in {"getPoints", "addPoints"}
  /\ r.userId \in Users /\ ~Unauthorized(r)
  /\ r.op = "addPoints" => (r.missing = {} /\ r.arg > 0)

\* C33: over a storage that does not fail, every accepted getPoints or
\* addPoints request is answered 200 and leaves the user with its
\* user_points row, also when it is one of two first accesses that run
\* getUserPoints' select and insert interleaved.
C33_FirstAccessesSucceed ==
  \A p \in Procs :
    (Ended(p) /\ AcceptedAccess(req[p]))
    => (resp[p].status = 200 /\ req[p].userId \in DOMAIN userPoints)

\* the step in which addPointsToUser returns to addPoints, or getPoints
\* answers, with the pointsToNextLevel computed from the total that
\* getUserPoints read
PointsToNextReturned(p) ==
  /\ \/ pc[p] = "apu_level" /\ req[p].op = "addPoints"
     \/ pc[p] = "get_level" /\ req[p].op = "getPoints"
  /\ pc'[p] = "done" /\ resp'[p].status = 200

\* C34: the pointsToNextLevel that addPoints (from addPointsToUser) and
\* getPoints return is 0 exactly when no level has a higher level_number
\* than the level they computed; otherwise it is the points_required of the
\* next level (the lowest level_number above the computed one) minus the
\* total_points that getUserPoints read, and is strictly positive.
C34_PointsToNextLevel ==
  [][\A p \in Procs :
       PointsToNextReturned(p)
       => LET higher == {r \in levels : r.level_number > resp'[p].level}
          IN /\ (resp'[p].p2n = 0) <=> (higher = {})
             /\ higher # {}
                => \E r \in higher :
                     /\ \A q \in higher : r.level_number <= q.level_number
                     /\ resp'[p].p2n = r.points_required - loc[p].upTotal
                     /\ resp'[p].p2n > 0]_vars

\* an addPoints answered at the top level of a table of several levels
\* (pointsToNextLevel 0) and a getPoints answered below the top level
C34_Witness ==
  /\ \E p \in Procs :
       /\ Ended(p) /\ req[p].op = "addPoints" /\ resp[p].status = 200
       /\ resp[p].level > 1 /\ resp[p].p2n = 0
  /\ \E q \in Procs :
       /\ Ended(q) /\ req[q].op = "getPoints" /\ resp[q].status = 200
       /\ resp[q].p2n > 0

\* C35: total_points of an existing row changes only in the transaction step
\* of addPointsToUser, by exactly the points of the ledger event that step
\* appends for the same user; a row created by getUserPoints starts at 0 and
\* the level updates leave total_points as it is.
C35_TotalOnlyIncremented ==
  [][\A u \in UserIds :
       /\ u \in DOMAIN userPoints => u \in DOMAIN userPoints'
       /\ (u \in DOMAIN userPoints
           /\ userPoints'[u].total_points # userPoints[u].total_points)
          => /\ \E p \in Procs : pc[p] = "apu_txn" /\ pc'[p] = "gup_select"
                                  /\ req[p].userId = u
             /\ Len(pointsHistory') = Len(pointsHistory) + 1
             /\ LET e == pointsHistory'[Len(pointsHistory')]
                IN /\ e.user_id = u
                   /\ userPoints'[u].total_points
                        = userPoints[u].total_points + e.points_earned
       /\ (u \notin DOMAIN userPoints /\ u \in DOMAIN userPoints')
          => userPoints'[u].total_points = 0]_vars

\* two addPoints for one user have both returned, one of them having read the
\* total before the other's transaction, and the stored total is the ledger sum
C35_Witness ==
  /\ \A p \in Procs : Ended(p) /\ req[p].op = "addPoints" /\ resp[p].status = 200
                        /\ req[p].userId = 2
  /\ \E p \in Procs : resp[p].newTotal < userPoints[2].total_points + req[p].arg
  /\ userPoints[2].total_points = HistorySum(2)
  /\ userPoints[2].current_level > 1

\* C36: the stored current_level of a user never decreases: every step,
\* interleaved addPointsToUser calls included, leaves it at least as high as
\* it was.
C36_LevelNeverDecreases ==
  [][\A u \in DOMAIN userPoints :
       userPoints'[u].current_level >= userPoints[u].current_level]_vars

----------------------------------------------------------------------------
(* Completion checks *)

\* the checks of completeChallenge without force on the row k = (user,
\* challenge), for a caller that passed the user and authorization checks
WouldComplete(k) ==
  LET ch == Challenges[k[2]]
  IN /\ ch.is_active
     /\ ~(now < ch.start_date)
     /\ ~(ch.end_date # NoEnd /\ now > ch.end_date)
     /\ k \in DOMAIN progress
     /\ ~AlreadyCompleted(progress[k])
     /\ ~TargetNotMet(progress[k], FALSE)

\* the rows the progress query of p returned are still the stored ones
RowsAsStored(p) ==
  \A e \in loc[p].rows : progress[<<req[p].userId, e.challengeId>>] = e.row

\* C37: every row of a getChallengeProgress answer, its rows being still as
\* they were read, has canComplete = true exactly when a completeChallenge
\* without force for the same user and challenge, issued at that instant,
\* would pass all its checks.
C37_CanCompleteMatches ==
  [][\A p \in Procs :
       (ProgressStep(p) /\ pc'[p] = "done" /\ resp'[p].status = 200 /\ RowsAsStored(p))
       => \A e \in resp'[p].challengeProgress :
            e.canComplete <=> WouldComplete(<<req'[p].userId, e.challengeId>>)]_vars

\* a step that takes in a completeChallenge request of p with force set, for
\* an existing user and from a caller authorized for it
ForcedEntry(p) ==
  /\ calls' = calls + 1 /\ pc[p] \in {"idle", "done"} /\ Acts(p)
  /\ req'[p].op = "completeChallenge" /\ req'[p].auto
  /\ req'[p].userId \in Users /\ ~Unauthorized(req'[p])

\* the step of a forced completeChallenge that reads the progress row
ForcedRowCheck(p) ==
  /\ pc[p] = "cc_progress" /\ pc'[p] # pc[p]
  /\ req[p].op = "completeChallenge" /\ req[p].auto

\* C38: with force set, completeChallenge is still rejected, leaving every
\* table unchanged, when the challenge is inactive, has not started, has
\* expired, has no progress row for the user or is already completed; in
\* every other case it goes on to mark the row, whatever the progress and
\* whoever the authorized caller is.
C38_ForceBypassesTargetOnly ==
  [][\A p \in Procs :
       /\ ForcedEntry(p) =>
            LET ch == Challenges[req'[p].arg]
            IN IF ~ch.is_active \/ now < ch.start_date
                  \/ (ch.end_date # NoEnd /\ now > ch.end_date)
               THEN /\ pc'[p] = "done" /\ resp'[p].status \in {400, 404}
                    /\ UNCHANGED store
               ELSE pc'[p] = "cc_progress" /\ UNCHANGED store
       /\ ForcedRowCheck(p) =>
            LET k == <<req[p].userId, req[p].arg>>
            IN IF k \notin DOMAIN progress \/ progress[k].completed
               THEN /\ pc'[p] = "done" /\ resp'[p].status \in {400, 404}
                    /\ UNCHANGED store
               ELSE pc'[p] = "cc_mark" /\ UNCHANGED store]_vars

\* a non-internal caller has completed its own challenge with force while
\* its progress is below the target
C38_Witness ==
  \E p \in Procs :
    LET k == <<req[p].userId, req[p].arg>>
    IN /\ Ended(p) /\ req[p].op = "completeChallenge" /\ req[p].auto
       /\ req[p].caller # Internal /\ req[p].caller = req[p].userId
       /\ resp[p].status = 200
       /\ k \in DOMAIN progress
       /\ progress[k].completed /\ progress[k].progress < progress[k].target

----------------------------------------------------------------------------
(* Reads of points and level *)

ReadOps == {"getPoints", "getUserLevel"}

\* C39: a step of a getPoints or getUserLevel request changes no table,
\* except that it may create the user_points row (total_points 0,
\* current_level 1) of an existing user the caller is authorized for, when
\* that user has none; rejected requests and requests that find the row
\* change nothing.
C39_ReadsOnlyCreateRow ==
  [][\A p \in Procs :
       (Acts(p) /\ req'[p].op \in ReadOps)
       => LET u == req'[p].userId
          IN /\ UNCHANGED <<pointsHistory, userBadges, progress, levels>>
             /\ \/ UNCHANGED userPoints
                \/ /\ u \in Users /\ ~Unauthorized(req'[p])
                   /\ u \notin DOMAIN userPoints
                   /\ DOMAIN userPoints' = DOMAIN userPoints \cup {u}
                   /\ \A v \in DOMAIN userPoints : userPoints'[v] = userPoints[v]
                   /\ userPoints'[u].total_points = 0
                   /\ userPoints'[u].current_level = 1]_vars

\* with no addPoints made, a getUserLevel has created the row of user 1 and
\* a getPoints has read the row user 2 already had
C39_Witness ==
  /\ pointsHistory = <<>>
  /\ \E p \in Procs : /\ Ended(p) /\ req[p].op = "getUserLevel" /\ req[p].userId = 1
                        /\ resp[p].status = 200
  /\ \E p \in Procs : /\ Ended(p) /\ req[p].op = "getPoints" /\ req[p].userId = 2
                        /\ resp[p].status = 200
  /\ 1 \in DOMAIN userPoints /\ userPoints[1] = NewUserPointsRow
  /\ userPoints[2] = NewUserPointsRow

\* the step that answers a getPoints or getUserLevel request of p with 200
ReadAnswered(p) ==
  /\ pc[p] = "get_level" /\ pc'[p] = "done"
  /\ req[p].op \in ReadOps /\ resp'[p].status = 200

\* the largest level_number among the levels with points_required <= t
LargestLevel(t) ==
  LET ok == {r \in levels : r.points_required <= t}
  IN (CHOOSE r \in ok : \A q \in ok : q.level_number <= r.level_number).level_number

\* no addPoints call is between its transaction and its return
AddPointsReturned ==
  \A q \in Procs : req[q].op = "addPoints" => pc[q] \in {"idle", "done"}

\* the level a read reports is the largest level its reported total reaches
ReportedLevelFromTotal ==
  [][\A p \in Procs :
       ReadAnswered(p) => resp'[p].level = LargestLevel(resp'[p].total)]_vars

\* C40: the level a getPoints or getUserLevel answer reports is the largest
\* level whose points_required is <= the total it reports, and, when no
\* addPoints call is still running and the stored total is the one the
\* request read, it is also the stored current_level of that user.
C40_ReportedLevelIsStoredLevel ==
  [][\A p \in Procs :
       ReadAnswered(p)
       => /\ resp'[p].level = LargestLevel(resp'[p].total)
          /\ (/\ AddPointsReturned
              /\ userPoints[req[p].userId].total_points = loc[p].upTotal)
             => resp'[p].level = userPoints'[req[p].userId].current_level]_vars

====
